---- MODULE Spec2Model ----
(***************************************************************************)
(* Binary tower field arithmetic of l2iterative/binius:                    *)
(*   src/src/binary_field.rs  BinaryField<F>  (GF(2^N), Vec<bool> data)    *)
(*   src/src/tower.rs         Ring<F>         (Vec of BinaryField limbs)   *)
(*   src/src/polynomial.rs    Polynomial<P>   (multilinear evaluation)     *)
(*                                                                         *)
(* A BinaryField value is the sequence of its N boolean coefficients; the  *)
(* Rust index i is the TLA+ index i+1.  A Ring is the sequence of its      *)
(* limbs.  Every operation that can panic returns a result record:         *)
(* Ok(v) when the Rust function returns v, Panic when it aborts.           *)
(***************************************************************************)
EXTENDS Integers, Sequences, FiniteSets, TLC

VARIABLES F, ua, ub, a, b, c, table, point, pc, res

vars == <<F, ua, ub, a, b, c, table, point, pc, res>>

(***************************************************************************)
(* Bounds of the model.                                                    *)
(***************************************************************************)
MaxSeed == 15
MaxLen == 4
MaxBasisLevel == 3
MaxLevel == 2
MaxTripleSeed == 11
MaxTableLen == 8
MaxEntryLevel == 1
MaxCoordLevel == 2
MaxTableSeed == 3
MaxPointSeed == 2
MaxDim == 3

(***************************************************************************)
(* Results of operations that may abort.                                   *)
(***************************************************************************)
Ok(v) == [ok |-> TRUE, val |-> v]

Panic == [ok |-> FALSE, val |-> <<>>]

NotRun == [ok |-> FALSE, val |-> <<0>>]

(***************************************************************************)
(* usize helpers.                                                          *)
(***************************************************************************)
Pow2(n) == 2 ^ n

RECURSIVE ILog2(_)
ILog2(n) == IF n <= 1 THEN 0 ELSE 1 + ILog2(n \div 2)

IsPowerOfTwo(n) == n >= 1 /\ Pow2(ILog2(n)) = n

XorAll(S) == Cardinality(S) % 2 = 1

SubVec(s, from, to) == [i \in 1..(to - from) |-> s[from + i]]

(***************************************************************************)
(* BinaryFieldConfig: F2 and AESPoly.                                      *)
(***************************************************************************)
Configs == {"F2", "AESPoly"}

N(f) == IF f = "AESPoly" THEN 8 ELSE 1

AESPolyWrongWindow == <<FALSE, FALSE, FALSE, TRUE, TRUE, TRUE, FALSE, TRUE>>

AESPolyWindow == <<FALSE, FALSE, FALSE, TRUE, TRUE, FALSE, TRUE, TRUE>>

AESImagUnit == <<TRUE, TRUE, FALSE, FALSE, TRUE, FALSE, TRUE, TRUE>>

get_poly(f) == IF f = "AESPoly" THEN AESPolyWindow ELSE <<FALSE>>

get_imag_unit(f) == IF f = "AESPoly" THEN AESImagUnit ELSE <<TRUE>>

(***************************************************************************)
(* BinaryField<F>.                                                         *)
(***************************************************************************)
BFZero(f) == [i \in 1..N(f) |-> FALSE]

BFOne(f) == [i \in 1..N(f) |-> i = 1]

\* From<u8>: bit i of the value becomes coefficient i, the rest stay false.
FromU8(f, value) == [i \in 1..N(f) |-> i <= 8 /\ (value \div Pow2(i - 1)) % 2 = 1]

\* &a + &b and a += &b: coefficient-wise XOR.
BFAdd(f, x, y) == [i \in 1..N(f) |-> x[i] # y[i]]

\* The convolution loop of mul: temp[i + j] ^= x[i] & y[j], as a function on 0..2N-2.
Convolve(f, x, y) ==
    [k \in 0..(2 * N(f) - 2) |->
        XorAll({i \in 0..(N(f) - 1) :
                    /\ k - i >= 0
                    /\ k - i <= N(f) - 1
                    /\ x[i + 1]
                    /\ y[k - i + 1]})]

\* The reduction loop of mul, from index i down to N: a set temp[i] is
\* cleared and poly[j] is XORed into temp[i - 1 - j] for every j < N.
RECURSIVE Reduce(_, _, _)
Reduce(f, temp, i) ==
    IF i < N(f) THEN temp
    ELSE IF temp[i]
         THEN Reduce(f,
                     [k \in DOMAIN temp |->
                         IF k = i THEN FALSE
                         ELSE IF k <= i - 1 /\ k >= i - N(f)
                              THEN temp[k] # get_poly(f)[(i - 1 - k) + 1]
                              ELSE temp[k]],
                     i - 1)
         ELSE Reduce(f, temp, i - 1)

BFMul(f, x, y) ==
    LET temp == Reduce(f, Convolve(f, x, y), 2 * N(f) - 2)
    IN  [i \in 1..N(f) |-> temp[i - 1]]

BFMulByImagUnit(f, x) == BFMul(f, x, get_imag_unit(f))

(***************************************************************************)
(* Ring<F>: tower.rs.                                                      *)
(***************************************************************************)
\* Ring::default(): one limb, the base-field zero.
RingDefault(f) == <<BFZero(f)>>

\* The zero and the one of a given number of limbs.
RingZero(f, len) == [j \in 1..len |-> BFZero(f)]

RingOne(f, len) == [j \in 1..len |-> IF j = 1 THEN BFOne(f) ELSE BFZero(f)]

get_len(x) == Len(x)

get_level(x) == ILog2(get_len(x))

\* a.iter().zip(b.iter()).map(|(a, b)| a + b): as long as the shorter one.
add_limbs_helper(f, x, y) ==
    [j \in 1..(IF Len(x) <= Len(y) THEN Len(x) ELSE Len(y)) |-> BFAdd(f, x[j], y[j])]

\* &a + &b: res = a.elements.clone(); res[i] += b[i] for every i < len(b).
\* res[i] is out of bounds, and the addition aborts, when b is the longer.
RingAdd(f, x, y) ==
    IF Len(y) > Len(x) THEN Panic
    ELSE Ok([j \in 1..Len(x) |-> IF j <= Len(y) THEN BFAdd(f, x[j], y[j]) ELSE x[j]])

\* &a - &b is self.add(rhs).
RingSub(f, x, y) == RingAdd(f, x, y)

\* The len == 2 case of mul_by_imag_unit: high = a[0] + a[1] * imag_unit, low = a[1].
ImagUnitTwoLimbsWithoutSeed(f, x) ==
    LET high == BFAdd(f, x[1], x[2])
        low == x[2]
    IN  <<low, high>>

ImagUnitTwoLimbsKeepsLow(f, x) ==
    LET high == x[1]
        low == x[2]
    IN  <<low, high>>

ImagUnitTwoLimbs(f, x) ==
    LET high == BFAdd(f, x[1], BFMulByImagUnit(f, x[2]))
        low == x[2]
    IN  <<low, high>>

RECURSIVE mul_by_imag_unit(_, _)
mul_by_imag_unit(f, x) ==
    LET len == Len(x) IN
    IF len = 1 THEN Ok(<<BFMulByImagUnit(f, x[1])>>)
    ELSE IF ~IsPowerOfTwo(len) THEN Panic
    ELSE IF len = 2
         THEN Ok(ImagUnitTwoLimbs(f, x))
         ELSE LET half_len == len \div 2
                  low == SubVec(x, half_len, len)
                  shift == mul_by_imag_unit(f, low)
              IN  IF ~shift.ok THEN Panic
                  ELSE Ok(low \o add_limbs_helper(f, shift.val, SubVec(x, 0, half_len)))

\* mid_term of recursive_mul: (a_sum * b_sum + a_low * b_low) + a_high * b_high.
MidTermWithoutHighHigh(f, ss, ll, hh) == add_limbs_helper(f, ss, ll)

MidTerm(f, ss, ll, hh) == add_limbs_helper(f, add_limbs_helper(f, ss, ll), hh)

\* low_term of recursive_mul: a_low * b_low + a_high * b_high.
LowTermWithoutHighHigh(f, ll, hh) == ll

LowTerm(f, ll, hh) == add_limbs_helper(f, ll, hh)

RECURSIVE recursive_mul(_, _, _)
recursive_mul(f, x, y) ==
    IF Len(x) # Len(y) THEN Panic
    ELSE IF Len(x) = 1 THEN Ok(<<BFMul(f, x[1], y[1])>>)
    ELSE IF ~IsPowerOfTwo(Len(x)) THEN Panic
    ELSE LET half_len == Len(x) \div 2
             a_low == SubVec(x, 0, half_len)
             a_high == SubVec(x, half_len, Len(x))
             b_low == SubVec(y, 0, half_len)
             b_high == SubVec(y, half_len, Len(y))
             a_sum == add_limbs_helper(f, a_low, a_high)
             b_sum == add_limbs_helper(f, b_low, b_high)
             a_low_times_b_low == recursive_mul(f, a_low, b_low)
             a_high_times_b_high == recursive_mul(f, a_high, b_high)
             a_sum_times_b_sum == recursive_mul(f, a_sum, b_sum)
         IN  IF ~(a_low_times_b_low.ok /\ a_high_times_b_high.ok /\ a_sum_times_b_sum.ok)
             THEN Panic
             ELSE LET mid_term == MidTerm(f, a_sum_times_b_sum.val,
                                          a_low_times_b_low.val,
                                          a_high_times_b_high.val)
                      shift == mul_by_imag_unit(f, a_high_times_b_high.val)
                  IN  IF ~shift.ok THEN Panic
                      ELSE LET high_term == add_limbs_helper(f, mid_term, shift.val)
                               low_term == LowTerm(f, a_low_times_b_low.val,
                                                   a_high_times_b_high.val)
                           IN  Ok(low_term \o high_term)

\* &a * &b: the equal-length product, or the longer operand cut into
\* k = long_len / short_len chunks, each multiplied by the shorter operand.
RingMul(f, x, y) ==
    IF get_len(x) # get_len(y)
    THEN LET long == IF get_len(x) < get_len(y) THEN y ELSE x
             short == IF get_len(x) < get_len(y) THEN x ELSE y
             long_len == get_len(long)
             short_len == get_len(short)
         IN  IF short_len = 0 THEN Panic
             ELSE LET k == long_len \div short_len
                      chunk_result ==
                          [i \in 0..(k - 1) |->
                              recursive_mul(f,
                                  SubVec(long, short_len * i, short_len * (i + 1)),
                                  short)]
                  IN  IF \E i \in 0..(k - 1) : ~chunk_result[i].ok THEN Panic
                      ELSE Ok([j \in 1..(k * short_len) |->
                                  chunk_result[(j - 1) \div short_len].val[((j - 1) % short_len) + 1]])
    ELSE recursive_mul(f, x, y)

\* Ring::from_bytes(l, value): the bits of the bytes, last byte first and
\* least-significant bit first, cut into l limbs of N bits.  The unwrap of
\* iter.next() aborts when the bytes hold fewer than l * N bits.
from_bytes(f, l, value) ==
    LET nbytes == Len(value)
        bits_le == [k \in 0..(8 * nbytes - 1) |->
                       (value[nbytes - (k \div 8)] \div Pow2(k % 8)) % 2 = 1]
    IN  IF l * N(f) > 8 * nbytes THEN Panic
        ELSE Ok([j \in 1..l |-> [i \in 1..N(f) |-> bits_le[(j - 1) * N(f) + (i - 1)]]])

(***************************************************************************)
(* Polynomial<P>: polynomial.rs.                                           *)
(***************************************************************************)
is_power_of_two(evaluations) == IsPowerOfTwo(Len(evaluations))

\* The body of the inner loop of evaluate: the new poly[b], or its abort.
\* left = &poly[b << 1], right = &poly[(b << 1) + 1],
\* poly[b] = left + &(r * &(right - left)).
FoldStepFromRight(f, poly, r, bi) ==
    LET left == poly[(2 * bi) + 1]
        right == poly[(2 * bi + 1) + 1]
        diff == RingSub(f, right, left)
    IN  IF ~diff.ok THEN Panic
        ELSE LET prod == RingMul(f, r, diff.val)
             IN  IF ~prod.ok THEN Panic ELSE RingAdd(f, right, prod.val)

FoldStep(f, poly, r, bi) ==
    LET left == poly[(2 * bi) + 1]
        right == poly[(2 * bi + 1) + 1]
        diff == RingSub(f, right, left)
    IN  IF ~diff.ok THEN Panic
        ELSE LET prod == RingMul(f, r, diff.val)
             IN  IF ~prod.ok THEN Panic ELSE RingAdd(f, left, prod.val)

\* for b in 0..(1 << (dim - i)), from bi on; poly is updated in place.
RECURSIVE InnerLoop(_, _, _, _, _)
InnerLoop(f, poly, r, bi, count) ==
    IF bi >= count THEN Ok(poly)
    ELSE LET v == FoldStep(f, poly, r, bi)
         IN  IF ~v.ok THEN Panic
             ELSE InnerLoop(f, [poly EXCEPT ![bi + 1] = v.val], r, bi + 1, count)

\* for i in 1..dim + 1, from i on, with r = &x[i - 1].
RECURSIVE OuterLoop(_, _, _, _, _)
OuterLoop(f, poly, x, i, dim) ==
    IF i > dim THEN Ok(poly)
    ELSE LET p == InnerLoop(f, poly, x[i], 0, Pow2(dim - i))
         IN  IF ~p.ok THEN Panic ELSE OuterLoop(f, p.val, x, i + 1, dim)

\* ilog2 aborts on 0; assert_eq!(dim, x.len()) aborts on a mismatch.
evaluate(f, evaluations, x) ==
    IF Len(evaluations) = 0 THEN Panic
    ELSE LET dim == ILog2(Len(evaluations))
         IN  IF dim # Len(x) THEN Panic
             ELSE LET poly == OuterLoop(f, evaluations, x, 1, dim)
                  IN  IF ~poly.ok THEN Panic ELSE Ok(poly.val[1])

(***************************************************************************)
(* The Rings the specifications draw their inputs from.  Seed 0 is the     *)
(* zero and seed 1 the one of the given length.  Over F2 limb j is bit j   *)
(* of the seed; over the AES field the limbs are bytes spread over 0..255. *)
(***************************************************************************)
SeedByte(s, j) ==
    LET t == (s * (s - 1)) \div 2
    IN  IF j = 0 THEN (s + t * 82) % 256 ELSE (t * (91 + 74 * j)) % 256

SeedLimb(f, s, j) ==
    IF f = "AESPoly" THEN FromU8(f, SeedByte(s, j))
    ELSE <<(s \div Pow2(j)) % 2 = 1>>

SeedRing(f, len, s) == [j \in 1..len |-> SeedLimb(f, s, j - 1)]

\* The level-k basis element: 2^k limbs, limb 2^(k-1) is one, the others zero.
Beta(f, k) == [j \in 1..Pow2(k) |-> IF j - 1 = Pow2(k - 1) THEN BFOne(f) ELSE BFZero(f)]

\* A Ring zero-padded on its high limbs to len limbs.
PadTo(f, x, len) == [j \in 1..len |-> IF j <= Len(x) THEN x[j] ELSE BFZero(f)]

\* The operands of test_simple and test_complex of tower.rs.
TestOperands(f) ==
    IF f = "AESPoly"
    THEN {from_bytes(f, 2, <<149, 249>>).val,
          from_bytes(f, 2, <<205, 25>>).val,
          from_bytes(f, 4, <<183, 54, 40, 99>>).val,
          from_bytes(f, 4, <<37, 221, 33, 234>>).val}
    ELSE {from_bytes(f, 4, <<2>>).val,
          from_bytes(f, 4, <<4>>).val,
          from_bytes(f, 4, <<8>>).val}

PairInputs(f) ==
    {SeedRing(f, len, s) : len \in 1..MaxLen, s \in 0..MaxSeed}
        \cup {Beta(f, k) : k \in 1..MaxBasisLevel}
        \cup TestOperands(f)

Max(m, n) == IF m >= n THEN m ELSE n

Min(m, n) == IF m <= n THEN m ELSE n

(***************************************************************************)
(* reference_implementation of test_aes_field_mul, on u8 values.           *)
(***************************************************************************)
U8Max == 255

XorU8(x, y) ==
    LET bit(i) == ((x \div Pow2(i)) + (y \div Pow2(i))) % 2
    IN  bit(0) + 2 * bit(1) + 4 * bit(2) + 8 * bit(3)
        + 16 * bit(4) + 32 * bit(5) + 64 * bit(6) + 128 * bit(7)

RECURSIVE RefLoop(_, _, _, _)
RefLoop(x, y, sum, n) ==
    IF n = 0 THEN sum
    ELSE LET sum1 == IF y % 2 = 1 THEN XorU8(sum, x) ELSE sum
             h == x \div 128 = 1
             x1 == (x * 2) % 256
             x2 == IF h THEN XorU8(x1, 27) ELSE x1
         IN  RefLoop(x2, y \div 2, sum1, n - 1)

reference_implementation(x, y) == RefLoop(x, y, 0, 8)

(***************************************************************************)
(* SpecField: the base-field product of two bytes.                         *)
(***************************************************************************)
InitField ==
    /\ F = "AESPoly"
    /\ ua \in 0..U8Max
    /\ ub \in 0..U8Max
    /\ a = <<>>
    /\ b = <<>>
    /\ c = <<>>
    /\ table = <<>>
    /\ point = <<>>
    /\ pc = "start"
    /\ res = NotRun

FieldMul ==
    /\ pc = "start"
    /\ res' = Ok(BFMul(F, FromU8(F, ua), FromU8(F, ub)))
    /\ pc' = "field_mul"
    /\ UNCHANGED <<F, ua, ub, a, b, c, table, point>>

NextField == FieldMul

SpecField == InitField /\ [][NextField]_vars

\* C1: over the AES base field the product of two bytes is the classical
\* shift-and-XOR-with-0x1B product of the same bytes.
C1_AesMulMatchesReference ==
    pc = "field_mul" =>
        /\ res.ok
        /\ res.val = FromU8(F, reference_implementation(ua, ub))

C1_Witness ==
    /\ pc = "field_mul"
    /\ ua = 87
    /\ ub = 131
    /\ res.val = FromU8(F, 193)

(***************************************************************************)
(* SpecRing: one Ring operation applied to a pair of Rings of any lengths. *)
(***************************************************************************)
InitRing ==
    /\ F \in Configs
    /\ ua = 0
    /\ ub = 0
    /\ a \in PairInputs(F)
    /\ b \in PairInputs(F)
    /\ c = <<>>
    /\ table = <<>>
    /\ point = <<>>
    /\ pc = "start"
    /\ res = NotRun

\* res = &a * &b
Mul ==
    /\ pc = "start"
    /\ res' = RingMul(F, a, b)
    /\ pc' = "mul"
    /\ UNCHANGED <<F, ua, ub, a, b, c, table, point>>

\* res = &a + &b
Add ==
    /\ pc = "start"
    /\ res' = RingAdd(F, a, b)
    /\ pc' = "add"
    /\ UNCHANGED <<F, ua, ub, a, b, c, table, point>>

\* res = mul_by_imag_unit(&a.elements)
MulByImagUnit ==
    /\ pc = "start"
    /\ res' = mul_by_imag_unit(F, a)
    /\ pc' = "mul_by_imag_unit"
    /\ UNCHANGED <<F, ua, ub, a, b, c, table, point>>

NextRing == Mul \/ Add \/ MulByImagUnit

SpecRing == InitRing /\ [][NextRing]_vars

\* C7 (as stated): a product of mismatched shapes aborts, and a product
\* that returns has as many limbs as the longer operand.
ShapeMismatch(x, y) ==
    \/ ~IsPowerOfTwo(Len(x))
    \/ ~IsPowerOfTwo(Len(y))
    \/ Max(Len(x), Len(y)) % Min(Len(x), Len(y)) # 0

C7_MulFailsFastOnShapeMismatch ==
    pc = "mul" =>
        /\ ShapeMismatch(a, b) => ~res.ok
        /\ res.ok => Len(res.val) = Max(Len(a), Len(b))

\* C8 (as stated): the sum of two Rings of different lengths, in either
\* order, is the longer operand with the shorter one XORed into its low limbs.
C8_AddZeroPadsShorterOperand ==
    (pc = "add" /\ Len(a) # Len(b)) =>
        /\ res.ok
        /\ Len(res.val) = Max(Len(a), Len(b))
        /\ \A j \in 1..Max(Len(a), Len(b)) :
              res.val[j] = IF j <= Min(Len(a), Len(b)) THEN BFAdd(F, a[j], b[j])
                           ELSE IF Len(a) > Len(b) THEN a[j] ELSE b[j]

\* C9: the equal-length product is the schoolbook product of the halves:
\* low half a_low*b_low + a_high*b_high, high half a_low*b_high + a_high*b_low
\* + basis * (a_high*b_high); for one limb it is the base-field product.
SchoolbookProduct(f, x, y) ==
    LET h == Len(x) \div 2
        al == SubVec(x, 0, h)
        ah == SubVec(x, h, Len(x))
        bl == SubVec(y, 0, h)
        bh == SubVec(y, h, Len(y))
        ll == RingMul(f, al, bl).val
        lh == RingMul(f, al, bh).val
        hl == RingMul(f, ah, bl).val
        hh == RingMul(f, ah, bh).val
        low == RingAdd(f, ll, hh).val
        high == RingAdd(f, RingAdd(f, lh, hl).val, mul_by_imag_unit(f, hh).val).val
    IN  low \o high

C9_RecursiveMulIsSchoolbook ==
    (pc = "mul" /\ Len(a) = Len(b) /\ IsPowerOfTwo(Len(a))) =>
        /\ res.ok
        /\ Len(res.val) = Len(a)
        /\ res.val = IF Len(a) = 1 THEN <<BFMul(F, a[1], b[1])>>
                     ELSE SchoolbookProduct(F, a, b)

C9_Witness ==
    /\ pc = "mul"
    /\ F = "AESPoly"
    /\ a = from_bytes(F, 4, <<183, 54, 40, 99>>).val
    /\ b = from_bytes(F, 4, <<37, 221, 33, 234>>).val
    /\ res = from_bytes(F, 4, <<164, 252, 22, 131>>)
    /\ res.val = SchoolbookProduct(F, a, b)

\* C10 (as stated): on two limbs (x0, x1) the basis multiplication returns
\* (x1, x0 + x1) over every base field.
C10_BasisOnTwoLimbsIsSwapAndSum ==
    (pc = "mul_by_imag_unit" /\ Len(a) = 2) =>
        /\ res.ok
        /\ res.val = <<a[2], BFAdd(F, a[1], a[2])>>

\* C10 (amended): on two limbs (x0, x1) the basis multiplication returns
\* (x1, x0 + seed * x1), seed being the base field's imaginary-unit constant;
\* over F2, whose seed is one, this is (x1, x0 + x1).
C10_BasisOnTwoLimbsUsesSeed ==
    (pc = "mul_by_imag_unit" /\ Len(a) = 2) =>
        /\ res.ok
        /\ res.val = <<a[2], BFAdd(F, a[1], BFMul(F, get_imag_unit(F), a[2]))>>
        /\ F = "F2" => res.val = <<a[2], BFAdd(F, a[1], a[2])>>

C10_Witness ==
    /\ pc = "mul_by_imag_unit"
    /\ F = "AESPoly"
    /\ Len(a) = 2
    /\ a[2] # BFZero(F)
    /\ res.ok
    /\ res.val[2] # BFAdd(F, a[1], a[2])

\* C6 (as stated): over F2 the level-k basis element squares to itself plus
\* the level-(k-1) basis element (the one, at level 1).
BetaPrev(f, k) == IF k = 1 THEN RingOne(f, Pow2(k)) ELSE PadTo(f, Beta(f, k - 1), Pow2(k))

C6_BasisSquaresToSelfPlusPrevious ==
    \A k \in 1..MaxBasisLevel :
        (pc = "mul" /\ F = "F2" /\ a = Beta(F, k) /\ b = Beta(F, k)) =>
            /\ res.ok
            /\ res.val = RingAdd(F, Beta(F, k), BetaPrev(F, k)).val

\* C6 (amended): over F2 the level-k basis element squares to its product
\* with the level-(k-1) basis element plus one; at level 1, where the
\* level-0 basis element is the one, this is the basis element plus one.
C6_BasisSquaresToSelfTimesPreviousPlusOne ==
    \A k \in 1..MaxBasisLevel :
        (pc = "mul" /\ F = "F2" /\ a = Beta(F, k) /\ b = Beta(F, k)) =>
            /\ res.ok
            /\ Len(res.val) = Pow2(k)
            /\ \A j \in 1..Pow2(k) :
                  res.val[j] = IF j = 1 \/ j - 1 = Pow2(k - 1) + (Pow2(k - 1) \div 2)
                               THEN BFOne(F) ELSE BFZero(F)
            /\ k = 1 => res.val = RingAdd(F, Beta(F, 1), RingOne(F, 2)).val

C6_Witness ==
    /\ pc = "mul"
    /\ F = "F2"
    /\ a = Beta(F, 2)
    /\ a = from_bytes(F, 4, <<4>>).val
    /\ b = a
    /\ res = from_bytes(F, 4, <<9>>)

(***************************************************************************)
(* SpecAssoc: two products in a row over three Rings of one level.         *)
(***************************************************************************)
InitAssoc ==
    /\ F \in Configs
    /\ ua = 0
    /\ ub = 0
    /\ \E k \in 0..MaxLevel :
          /\ a \in {SeedRing(F, Pow2(k), s) : s \in 0..MaxTripleSeed}
          /\ b \in {SeedRing(F, Pow2(k), s) : s \in 0..MaxTripleSeed}
          /\ c \in {SeedRing(F, Pow2(k), s) : s \in 0..MaxTripleSeed}
    /\ table = <<>>
    /\ point = <<>>
    /\ pc = "start"
    /\ res = NotRun

\* res = &(&a * &b) * &c
MulMul ==
    /\ pc = "start"
    /\ res' = LET ab == RingMul(F, a, b)
              IN  IF ~ab.ok THEN Panic ELSE RingMul(F, ab.val, c)
    /\ pc' = "mul_mul"
    /\ UNCHANGED <<F, ua, ub, a, b, c, table, point>>

NextAssoc == MulMul

SpecAssoc == InitAssoc /\ [][NextAssoc]_vars

\* C5: the product of Rings of one level is associative, and every product
\* has the operands' number of limbs.
C5_EqualLevelMulAssociative ==
    pc = "mul_mul" =>
        LET ab == RingMul(F, a, b)
            bc == RingMul(F, b, c)
        IN  /\ res.ok
            /\ Len(res.val) = Len(a)
            /\ ab.ok
            /\ Len(ab.val) = Len(a)
            /\ bc.ok
            /\ Len(bc.val) = Len(a)
            /\ res = RingMul(F, a, bc.val)

C5_Witness ==
    /\ pc = "mul_mul"
    /\ F = "AESPoly"
    /\ Len(a) = 4
    /\ a # b
    /\ b # c
    /\ a # c
    /\ res.ok
    /\ res = RingMul(F, a, RingMul(F, b, c).val)
    /\ \A j \in 1..4 : res.val[j] # BFZero(F)
    /\ res.val # RingMul(F, a, b).val

(***************************************************************************)
(* SpecEval: one evaluation of a table at a point.                         *)
(***************************************************************************)
InitEval ==
    /\ F \in Configs
    /\ ua = 0
    /\ ub = 0
    /\ a = <<>>
    /\ b = <<>>
    /\ c = <<>>
    /\ \E n \in 1..MaxTableLen, ke \in 0..MaxEntryLevel, t \in 0..MaxTableSeed :
          table = [k \in 1..n |-> SeedRing(F, Pow2(ke), t + k - 1)]
    /\ \E m \in 0..MaxDim, kp \in 0..MaxCoordLevel :
          point \in [1..m -> {SeedRing(F, Pow2(kp), s) : s \in 0..MaxPointSeed}]
    /\ pc = "start"
    /\ res = NotRun

\* res = Polynomial { evaluations: table }.evaluate(&point)
Evaluate ==
    /\ pc = "start"
    /\ res' = evaluate(F, table, point)
    /\ pc' = "evaluate"
    /\ UNCHANGED <<F, ua, ub, a, b, c, table, point>>

NextEval == Evaluate

SpecEval == InitEval /\ [][NextEval]_vars

EntryLen == Len(table[1])

\* C2 (as stated): on a table of four entries and a point (r1, r2) the
\* evaluation returns (1-r1)(1-r2)e00 + r1(1-r2)e01 + (1-r1)r2 e10 + r1 r2 e11,
\* also when the coordinates have more limbs than the entries.
ZeroPaddedSum(f, x, y) ==
    [j \in 1..Max(Len(x), Len(y)) |->
        IF j > Len(x) THEN y[j]
        ELSE IF j > Len(y) THEN x[j]
        ELSE BFAdd(f, x[j], y[j])]

BilinearFormula(f, e, r1, r2) ==
    LET one_minus_r1 == ZeroPaddedSum(f, RingOne(f, Len(r1)), r1)
        one_minus_r2 == ZeroPaddedSum(f, RingOne(f, Len(r2)), r2)
        term(u, v, w) == RingMul(f, RingMul(f, u, v).val, w).val
    IN  ZeroPaddedSum(f,
            ZeroPaddedSum(f, term(one_minus_r1, one_minus_r2, e[1]),
                             term(r1, one_minus_r2, e[2])),
            ZeroPaddedSum(f, term(one_minus_r1, r2, e[3]),
                             term(r1, r2, e[4])))

C2_EvaluateIsBilinearFormula ==
    (pc = "evaluate" /\ Len(table) = 4 /\ Len(point) = 2) =>
        /\ res.ok
        /\ res.val = BilinearFormula(F, table, point[1], point[2])

\* The same-or-fewer-limbs part of C2, which the code satisfies.
C2_HoldsWhenCoordinatesNotLonger ==
    (pc = "evaluate" /\ Len(table) = 4 /\ Len(point) = 2 /\ Len(point[1]) <= EntryLen) =>
        /\ res.ok
        /\ res.val = BilinearFormula(F, table, point[1], point[2])

\* C4 (as stated): the evaluation aborts when the table length is not a
\* power of two or the point length is not its base-2 logarithm.
C4_EvaluateFailsOnDimensionMismatch ==
    (/\ pc = "evaluate"
     /\ \/ ~IsPowerOfTwo(Len(table))
        \/ Len(point) # ILog2(Len(table))) => ~res.ok

\* A boolean point: every coordinate is the zero or the one, of a length
\* that is at most the length of the table entries.
IsBooleanPoint ==
    /\ Len(point) >= 1
    /\ Len(point[1]) <= EntryLen
    /\ \A i \in 1..Len(point) :
          point[i] \in {RingZero(F, Len(point[1])), RingOne(F, Len(point[1]))}

PointBit(i) == IF point[i] = RingOne(F, Len(point[1])) THEN 1 ELSE 0

RECURSIVE BigEndianIndex(_)
BigEndianIndex(i) ==
    IF i > Len(point) THEN 0 ELSE PointBit(i) * Pow2(Len(point) - i) + BigEndianIndex(i + 1)

RECURSIVE LittleEndianIndex(_)
LittleEndianIndex(i) ==
    IF i > Len(point) THEN 0 ELSE PointBit(i) * Pow2(i - 1) + LittleEndianIndex(i + 1)

\* C3 (as stated): at a boolean point (b1, ..., bd) the evaluation of a table
\* of 2^d entries returns entry b1*2^(d-1) + ... + bd*2^0: the first
\* coordinate varies slowest.
C3_BooleanPointSelectsBigEndianEntry ==
    (pc = "evaluate" /\ Len(table) = Pow2(Len(point)) /\ IsBooleanPoint) =>
        /\ res.ok
        /\ res.val = table[BigEndianIndex(1) + 1]

\* C3 (amended): at a boolean point (b1, ..., bd), every coordinate the zero
\* or the one of no more limbs than the table entries, the evaluation of a
\* table of 2^d entries returns entry b1*2^0 + b2*2^1 + ... + bd*2^(d-1):
\* the first coordinate varies fastest.
C3_BooleanPointSelectsLittleEndianEntry ==
    (pc = "evaluate" /\ Len(table) = Pow2(Len(point)) /\ IsBooleanPoint) =>
        /\ res.ok
        /\ res.val = table[LittleEndianIndex(1) + 1]

C3_Witness ==
    /\ pc = "evaluate"
    /\ Len(table) = 8
    /\ Len(point) = 3
    /\ IsBooleanPoint
    /\ PointBit(1) = 1
    /\ PointBit(2) = 0
    /\ PointBit(3) = 0
    /\ table[2] # table[5]
    /\ res = Ok(table[2])

====
